---- MODULE Spec2Model ----
(***************************************************************************)
(* SharePointTable (src/includes/sharepoint-table.js): the pipeline        *)
(* normalize -> sort -> derive headers -> format cells -> mount, as the    *)
(* class implements it.                                                    *)
(*                                                                         *)
(* JavaScript values are tagged records.  A JavaScript string is a         *)
(* sequence of one-character strings, so that startsWith, join and the     *)
(* textual form of a number are computed and not assumed.  An object is    *)
(* the sequence of its <<key, value>> entries in key iteration order.      *)
(***************************************************************************)
EXTENDS Integers, Sequences, FiniteSets, TLC

VARIABLES
  data,            \* this.data: the RawInput object the instance holds (by reference)
  input,           \* the caller's RawInput as it was when the instance was constructed
  includeHeaders,  \* this.includeHeaders
  formatDates,     \* this.formatDates
  sortBy,          \* this.sortBy
  containerId,     \* this.containerId
  container,       \* child content of the one element the host document has
  console,         \* messages written to console.error, oldest first
  stages,          \* internal stages the last render() call entered, in order
  renders,         \* number of render() calls made so far
  engine,          \* the algorithm behind the host's Array.prototype.sort
  arg,             \* argument of the last direct method call
  ret              \* what the last call returned, or the exception it raised

vars == <<data, input, includeHeaders, formatDates, sortBy, containerId,
          container, console, stages, renders, engine, arg, ret>>

----------------------------------------------------------------------------
(* JavaScript values *)

Undefined == [t |-> "undefined"]
Null == [t |-> "null"]
Num(n) == [t |-> "number", v |-> n]
Str(s) == [t |-> "string", v |-> s]
Bool(b) == [t |-> "boolean", v |-> b]
Arr(s) == [t |-> "array", v |-> s]
Obj(es) == [t |-> "object", v |-> es]

\* What evaluating an expression gives when it throws.
TypeError == [t |-> "TypeError"]

IsThrow(x) == x.t = "TypeError"
IsArray(x) == x.t = "array"
IsNullish(x) == x.t \in {"undefined", "null"}

\* ToBoolean: the test of `if (x)`, `!x` and `x && y`.
Truthy(x) ==
  CASE x.t \in {"undefined", "null", "TypeError"} -> FALSE
    [] x.t = "number" -> x.v # 0
    [] x.t = "string" -> x.v # <<>>
    [] x.t = "boolean" -> x.v
    [] OTHER -> TRUE

\* Property names the code reads.
K_d == <<"d">>
K_results == <<"r", "e", "s", "u", "l", "t", "s">>

HasOwn(o, k) == o.t = "object" /\ \E i \in 1..Len(o.v) : o.v[i][1] = k

Lookup(o, k) == o.v[CHOOSE i \in 1..Len(o.v) : o.v[i][1] = k][2]

\* o.k and o[k]: a TypeError on null and undefined, undefined where the
\* property is absent (primitives and arrays carry none of the names read).
Get(o, k) ==
  IF IsThrow(o) \/ IsNullish(o) THEN TypeError
  ELSE IF HasOwn(o, k) THEN Lookup(o, k)
  ELSE Undefined

\* o?.k
OptGet(o, k) == IF IsNullish(o) THEN Undefined ELSE Get(o, k)

\* Object.keys(o), in key iteration order.
Keys(o) == [i \in 1..Len(o.v) |-> o.v[i][1]]

\* const v = x; then F(v): x is evaluated once, before F uses it.
Bind(x, F(_)) == CHOOSE r \in {F(v) : v \in {x}} : TRUE

----------------------------------------------------------------------------
(* Strings *)

Digits == <<"0", "1", "2", "3", "4", "5", "6", "7", "8", "9">>

IsDigit(c) == \E i \in 1..10 : Digits[i] = c

DigitValue(c) == (CHOOSE i \in 1..10 : Digits[i] = c) - 1

RECURSIVE NatToString(_)
NatToString(n) ==
  IF n < 10 THEN <<Digits[n + 1]>>
  ELSE NatToString(n \div 10) \o <<Digits[(n % 10) + 1]>>

\* Value of a run of decimal digits.
RECURSIVE DigitsToNat(_)
DigitsToNat(s) ==
  IF s = <<>> THEN 0
  ELSE 10 * DigitsToNat(SubSeq(s, 1, Len(s) - 1)) + DigitValue(s[Len(s)])

\* String(value) of a primitive (line 159).
String(value) ==
  CASE value.t = "string" -> value.v
    [] value.t = "number" ->
         IF value.v < 0 THEN <<"-">> \o NatToString(0 - value.v)
         ELSE NatToString(value.v)
    [] value.t = "boolean" ->
         IF value.v THEN <<"t", "r", "u", "e">> ELSE <<"f", "a", "l", "s", "e">>
    [] value.t = "undefined" -> <<"u", "n", "d", "e", "f", "i", "n", "e", "d">>
    [] value.t = "null" -> <<"n", "u", "l", "l">>

\* parts.join(sep) over an array of strings.
RECURSIVE Join(_, _)
Join(parts, sep) ==
  IF parts = <<>> THEN <<>>
  ELSE IF Len(parts) = 1 THEN parts[1]
  ELSE parts[1] \o sep \o Join(Tail(parts), sep)

CommaSpace == <<",", " ">>
ColonSpace == <<":", " ">>

\* h.startsWith("_")
StartsWithUnderscore(h) == Len(h) >= 1 /\ h[1] = "_"

IsoDatePrefixTest(s) ==
  /\ Len(s) >= 19
  /\ \A i \in {1, 2, 3, 4, 6, 7, 9, 10, 12, 13, 15, 16, 18, 19} : IsDigit(s[i])
  /\ s[5] = "-" /\ s[8] = "-" /\ s[11] = "T" /\ s[14] = ":" /\ s[17] = ":"

\* /^\d{4}-\d{2}-\d{2}T\d{2}:\d{2}:\d{2}(\.\d+)?Z$/.test(s)
IsoDateRegexTest(s) ==
  /\ Len(s) >= 20
  /\ \A i \in {1, 2, 3, 4, 6, 7, 9, 10, 12, 13, 15, 16, 18, 19} : IsDigit(s[i])
  /\ s[5] = "-" /\ s[8] = "-" /\ s[11] = "T" /\ s[14] = ":" /\ s[17] = ":"
  /\ s[Len(s)] = "Z"
  /\ \/ Len(s) = 20
     \/ /\ Len(s) >= 22
        /\ s[20] = "."
        /\ \A i \in 21..(Len(s) - 1) : IsDigit(s[i])

----------------------------------------------------------------------------
(* _normalizeData *)

\* a && b
AndThen(a, b) == IF IsThrow(a) THEN a ELSE IF Truthy(a) THEN b ELSE a

\* Array.isArray(x)
ArrayIsArray(x) == IF IsThrow(x) THEN x ELSE Bool(IsArray(x))

\* The value a method hands back, with the place in this.data the returned
\* array is (ref = "new" for an array literal the method creates).
Return(x, where) == [val |-> x, ref |-> where]

NormalizeResultsFirst(raw) ==
  LET c1 == AndThen(OptGet(Get(raw, K_d), K_results),
                    ArrayIsArray(Get(Get(raw, K_d), K_results)))
      c2 == AndThen(Get(raw, K_results), ArrayIsArray(Get(raw, K_results)))
      c3 == AndThen(Get(raw, K_d), ArrayIsArray(Get(raw, K_d)))
  IN  IF ~Truthy(raw) THEN Return(Arr(<<>>), "new")
      ELSE IF IsThrow(c2) THEN Return(TypeError, "new")
      ELSE IF Truthy(c2) THEN Return(Get(raw, K_results), "results")
      ELSE IF IsThrow(c1) THEN Return(TypeError, "new")
      ELSE IF Truthy(c1) THEN Return(Get(Get(raw, K_d), K_results), "d.results")
      ELSE IF IsThrow(c3) THEN Return(TypeError, "new")
      ELSE IF Truthy(c3) THEN Return(Get(raw, K_d), "d")
      ELSE IF IsArray(raw) THEN Return(raw, "data")
      ELSE Return(Arr(<<>>), "new")

NormalizeNoOptionalChaining(raw) ==
  LET c1 == AndThen(Get(Get(raw, K_d), K_results),
                    ArrayIsArray(Get(Get(raw, K_d), K_results)))
      c2 == AndThen(Get(raw, K_results), ArrayIsArray(Get(raw, K_results)))
      c3 == AndThen(Get(raw, K_d), ArrayIsArray(Get(raw, K_d)))
  IN  IF ~Truthy(raw) THEN Return(Arr(<<>>), "new")
      ELSE IF IsThrow(c1) THEN Return(TypeError, "new")
      ELSE IF Truthy(c1) THEN Return(Get(Get(raw, K_d), K_results), "d.results")
      ELSE IF IsThrow(c2) THEN Return(TypeError, "new")
      ELSE IF Truthy(c2) THEN Return(Get(raw, K_results), "results")
      ELSE IF IsThrow(c3) THEN Return(TypeError, "new")
      ELSE IF Truthy(c3) THEN Return(Get(raw, K_d), "d")
      ELSE IF IsArray(raw) THEN Return(raw, "data")
      ELSE Return(Arr(<<>>), "new")

_normalizeData(raw) ==
  LET c1 == AndThen(OptGet(Get(raw, K_d), K_results),
                    ArrayIsArray(Get(Get(raw, K_d), K_results)))
      c2 == AndThen(Get(raw, K_results), ArrayIsArray(Get(raw, K_results)))
      c3 == AndThen(Get(raw, K_d), ArrayIsArray(Get(raw, K_d)))
  IN  IF ~Truthy(raw) THEN Return(Arr(<<>>), "new")
      ELSE IF IsThrow(c1) THEN Return(TypeError, "new")
      ELSE IF Truthy(c1) THEN Return(Get(Get(raw, K_d), K_results), "d.results")
      ELSE IF IsThrow(c2) THEN Return(TypeError, "new")
      ELSE IF Truthy(c2) THEN Return(Get(raw, K_results), "results")
      ELSE IF IsThrow(c3) THEN Return(TypeError, "new")
      ELSE IF Truthy(c3) THEN Return(Get(raw, K_d), "d")
      ELSE IF IsArray(raw) THEN Return(raw, "data")
      ELSE Return(Arr(<<>>), "new")

----------------------------------------------------------------------------
(* Dates.  The host is taken to run with locale en-US in time zone UTC; a  *)
(* date-time whose fields are out of range parses to an invalid Date.      *)

DaysInMonth(y, m) ==
  IF m = 2 THEN (IF (y % 4 = 0 /\ y % 100 # 0) \/ y % 400 = 0 THEN 29 ELSE 28)
  ELSE IF m \in {4, 6, 9, 11} THEN 30 ELSE 31

\* Milliseconds named by the fraction digits after the ".".
Millis(frac) ==
  LET pad == frac \o <<"0", "0", "0">>
  IN  DigitsToNat(SubSeq(pad, 1, 3))

\* new Date(s) for a string s that matches isoDateRegex: the UTC fields
\* <<year, month, day, hour, minute, second, millisecond>>.
NewDate(s) ==
  LET f == << DigitsToNat(SubSeq(s, 1, 4)), DigitsToNat(SubSeq(s, 6, 7)),
              DigitsToNat(SubSeq(s, 9, 10)), DigitsToNat(SubSeq(s, 12, 13)),
              DigitsToNat(SubSeq(s, 15, 16)), DigitsToNat(SubSeq(s, 18, 19)),
              IF Len(s) = 20 THEN 0 ELSE Millis(SubSeq(s, 21, Len(s) - 1)) >>
  IN  [t |-> "date",
       valid |-> /\ f[2] \in 1..12
                 /\ f[3] >= 1 /\ f[3] <= DaysInMonth(f[1], f[2])
                 /\ f[4] <= 23 /\ f[5] <= 59 /\ f[6] <= 59,
       f |-> f]

InvalidDate == <<"I", "n", "v", "a", "l", "i", "d", " ", "D", "a", "t", "e">>

TwoDigits(n) == IF n < 10 THEN <<"0">> \o NatToString(n) ELSE NatToString(n)

\* date.toLocaleDateString()
toLocaleDateString(date) ==
  IF ~date.valid THEN InvalidDate
  ELSE NatToString(date.f[2]) \o <<"/">> \o NatToString(date.f[3])
         \o <<"/">> \o NatToString(date.f[1])

\* date.toLocaleTimeString()
toLocaleTimeString(date) ==
  IF ~date.valid THEN InvalidDate
  ELSE NatToString(IF date.f[4] % 12 = 0 THEN 12 ELSE date.f[4] % 12)
         \o <<":">> \o TwoDigits(date.f[5]) \o <<":">> \o TwoDigits(date.f[6])
         \o (IF date.f[4] < 12 THEN <<" ", "A", "M">> ELSE <<" ", "P", "M">>)

\* date.toLocaleString()
toLocaleString(date) ==
  IF ~date.valid THEN InvalidDate
  ELSE toLocaleDateString(date) \o CommaSpace \o toLocaleTimeString(date)

----------------------------------------------------------------------------
(* _formatCellValue *)

\* const [showDate, showTime] = this.formatDates
Destructure(fD) ==
  IF fD.t = "array"
  THEN [t |-> "pair",
        showDate |-> IF Len(fD.v) >= 1 THEN fD.v[1] ELSE Undefined,
        showTime |-> IF Len(fD.v) >= 2 THEN fD.v[2] ELSE Undefined]
  ELSE IF fD.t = "string"
  THEN [t |-> "pair",
        showDate |-> IF Len(fD.v) >= 1 THEN Str(<<fD.v[1]>>) ELSE Undefined,
        showTime |-> IF Len(fD.v) >= 2 THEN Str(<<fD.v[2]>>) ELSE Undefined]
  ELSE TypeError

\* The strings of parts joined with sep, or the exception one of them raised.
JoinAll(parts, sep) ==
  IF \E i \in 1..Len(parts) : IsThrow(parts[i]) THEN TypeError
  ELSE Str(Join([i \in 1..Len(parts) |-> parts[i].v], sep))

RECURSIVE FormatNullAsText(_, _)
FormatNullAsText(value, fD) ==
  IF Truthy(fD) /\ value.t = "string" /\ IsoDateRegexTest(value.v)
  THEN LET date == NewDate(value.v)
           flags == Destructure(fD)
       IN  IF IsThrow(flags) THEN TypeError
           ELSE IF Truthy(flags.showDate) /\ Truthy(flags.showTime)
             THEN Str(toLocaleString(date))
           ELSE IF Truthy(flags.showDate) /\ ~Truthy(flags.showTime)
             THEN Str(toLocaleDateString(date))
           ELSE IF ~Truthy(flags.showDate) /\ Truthy(flags.showTime)
             THEN Str(toLocaleTimeString(date))
           ELSE Str(<<>>)
  ELSE IF IsArray(value)
  THEN JoinAll([i \in 1..Len(value.v) |-> FormatNullAsText(value.v[i], fD)],
               CommaSpace)
  ELSE IF value.t = "object"
  THEN JoinAll([i \in 1..Len(value.v) |->
                 LET e == FormatNullAsText(value.v[i][2], fD)
                 IN  IF IsThrow(e) THEN e
                     ELSE Str(value.v[i][1] \o ColonSpace \o e.v)],
               CommaSpace)
  ELSE Str(String(value))

RECURSIVE _formatCellValue(_, _)
_formatCellValue(value, fD) ==
  IF value.t = "null" THEN Str(<<>>)
  ELSE IF Truthy(fD) /\ value.t = "string" /\ IsoDateRegexTest(value.v)
  THEN LET date == NewDate(value.v)
           flags == Destructure(fD)
       IN  IF IsThrow(flags) THEN TypeError
           ELSE IF Truthy(flags.showDate) /\ Truthy(flags.showTime)
             THEN Str(toLocaleString(date))
           ELSE IF Truthy(flags.showDate) /\ ~Truthy(flags.showTime)
             THEN Str(toLocaleDateString(date))
           ELSE IF ~Truthy(flags.showDate) /\ Truthy(flags.showTime)
             THEN Str(toLocaleTimeString(date))
           ELSE Str(<<>>)
  ELSE IF IsArray(value)
  THEN JoinAll([i \in 1..Len(value.v) |-> _formatCellValue(value.v[i], fD)],
               CommaSpace)
  ELSE IF value.t = "object"
  THEN JoinAll([i \in 1..Len(value.v) |->
                 LET e == _formatCellValue(value.v[i][2], fD)
                 IN  IF IsThrow(e) THEN e
                     ELSE Str(value.v[i][1] \o ColonSpace \o e.v)],
               CommaSpace)
  ELSE Str(String(value))

----------------------------------------------------------------------------
(* _generateHeaders *)

\* Object.keys(x): the own keys of an object, the indices of an array or a
\* string, nothing for a number or a boolean, a TypeError for null/undefined.
ObjectKeys(x) ==
  CASE IsNullish(x) \/ IsThrow(x) -> TypeError
    [] x.t = "object" -> [t |-> "keys", v |-> Keys(x)]
    [] x.t \in {"array", "string"} ->
         [t |-> "keys", v |-> [i \in 1..Len(x.v) |-> NatToString(i - 1)]]
    [] OTHER -> [t |-> "keys", v |-> <<>>]

\* headers.add(key) for each key in turn: a Set keeps first insertion order.
RECURSIVE AddKeys(_, _)
AddKeys(headers, keys) ==
  IF keys = <<>> THEN headers
  ELSE Bind(IF \E i \in 1..Len(headers) : headers[i] = keys[1]
            THEN headers ELSE Append(headers, keys[1]),
            LAMBDA added : Bind(Tail(keys), LAMBDA rest : AddKeys(added, rest)))

\* rows.forEach((row) => Object.keys(row).forEach((key) => headers.add(key)))
RECURSIVE CollectKeys(_, _)
CollectKeys(rows, headers) ==
  IF rows = <<>> THEN [t |-> "keys", v |-> headers]
  ELSE Bind(ObjectKeys(rows[1]), LAMBDA ks :
         IF IsThrow(ks) THEN TypeError
         ELSE Bind(AddKeys(headers, ks.v), LAMBDA added :
                Bind(Tail(rows), LAMBDA rest : CollectKeys(rest, added))))

Includes(headerArray, h) ==
  h.t = "string" /\ \E i \in 1..Len(headerArray) : headerArray[i] = h.v

KeepInternal(h) == FALSE

\* (h) => h.startsWith("_")
IsInternal(h) == StartsWithUnderscore(h)

AlwaysIncluded(headerArray, h) == TRUE

\* (h) => headerArray.includes(h)
InData(headerArray, h) == Includes(headerArray, h)

_generateHeaders(rows, iH) ==
  Bind(CollectKeys(rows, <<>>), LAMBDA all :
    IF IsThrow(all) THEN TypeError
    ELSE IF Truthy(iH) /\ IsArray(iH)
    THEN Arr(SelectSeq(iH.v, LAMBDA h : InData(all.v, h)))
    ELSE Bind(SelectSeq(all.v, LAMBDA h : ~IsInternal(h)), LAMBDA kept :
           Arr([i \in 1..Len(kept) |-> Str(kept[i])])))

----------------------------------------------------------------------------
(* The sort comparator of render(): JavaScript's < and > on the values at  *)
(* the sort field.                                                         *)

\* The characters the model's strings are made of, in code unit order.
CharOrder ==
  <<" ", "+", ",", "-", ".", "/", "0", "1", "2", "3", "4", "5", "6", "7", "8", "9",
    ":", "A", "B", "C", "D", "I", "M", "O", "P", "S", "T", "Z", "[", "]", "_",
    "a", "b", "c", "d", "e", "f", "i", "j", "l", "m", "n", "o", "p", "r", "s",
    "t", "u", "v", "x", "y", "z">>

CodeUnit(c) == CHOOSE i \in 1..Len(CharOrder) : CharOrder[i] = c

\* s < u for two strings: by code units, a proper prefix first.
RECURSIVE StringLess(_, _)
StringLess(s, u) ==
  IF u = <<>> THEN FALSE
  ELSE IF s = <<>> THEN TRUE
  ELSE IF s[1] = u[1] THEN StringLess(Tail(s), Tail(u))
  ELSE CodeUnit(s[1]) < CodeUnit(u[1])

ObjectObject ==
  <<"[", "o", "b", "j", "e", "c", "t", " ", "O", "b", "j", "e", "c", "t", "]">>

\* x.toString() of an array or a plain object.
RECURSIVE ToStringOf(_)
ToStringOf(x) ==
  IF x.t = "array"
  THEN Join([i \in 1..Len(x.v) |->
              IF IsNullish(x.v[i]) THEN <<>>
              ELSE IF x.v[i].t \in {"array", "object"} THEN ToStringOf(x.v[i])
              ELSE String(x.v[i])], <<",">>)
  ELSE ObjectObject

\* ToPrimitive with hint number: a Date gives its time value, an array or
\* an object its toString().
ToPrimitive(x) ==
  IF x.t \in {"array", "object"} THEN Str(ToStringOf(x)) ELSE x

NaN == [k |-> "nan"]
Finite(n) == [k |-> "int", n |-> n]

\* ToNumber of a string of the model: empty, or decimal digits with an
\* optional sign; every other string is NaN.
StringToNumber(s) ==
  IF s = <<>> THEN Finite(0)
  ELSE IF \A i \in 1..Len(s) : IsDigit(s[i]) THEN Finite(DigitsToNat(s))
  ELSE IF Len(s) >= 2 /\ s[1] = "-" /\ \A i \in 2..Len(s) : IsDigit(s[i])
    THEN Finite(0 - DigitsToNat(Tail(s)))
  ELSE NaN

\* ToNumber of a primitive; the time value of a Date stays in its fields.
ToNumber(x) ==
  CASE x.t = "number" -> Finite(x.v)
    [] x.t = "boolean" -> Finite(IF x.v THEN 1 ELSE 0)
    [] x.t = "null" -> Finite(0)
    [] x.t = "string" -> StringToNumber(x.v)
    [] x.t = "date" -> IF x.valid THEN [k |-> "time", f |-> x.f] ELSE NaN
    [] OTHER -> NaN

RECURSIVE TupleLess(_, _)
TupleLess(f, g) ==
  IF f = <<>> THEN FALSE
  ELSE IF f[1] = g[1] THEN TupleLess(Tail(f), Tail(g))
  ELSE f[1] < g[1]

\* Seconds from the start of its year to a time value of year 1970.
SecondsIn1970(f) ==
  LET days == CHOOSE n \in 0..365 :
                n = (f[3] - 1) + Cardinality({<<m, d>> \in (1..12) \X (1..31) :
                                               m < f[2] /\ d <= DaysInMonth(1970, m)})
  IN  ((days * 24 + f[4]) * 60 + f[5]) * 60 + f[6]

\* n < (time value of f), for an integer n and the fields f of a valid Date.
IntLessTime(n, f) ==
  IF f[1] > 1970 THEN TRUE
  ELSE IF f[1] < 1970 THEN FALSE
  ELSE IF n < 0 THEN TRUE
  ELSE \/ n \div 1000 < SecondsIn1970(f)
       \/ n \div 1000 = SecondsIn1970(f) /\ n % 1000 < f[7]

TimeLessInt(f, n) ==
  IF f[1] > 1970 THEN FALSE
  ELSE IF f[1] < 1970 THEN TRUE
  ELSE IF n < 0 THEN FALSE
  ELSE \/ SecondsIn1970(f) < n \div 1000
       \/ SecondsIn1970(f) = n \div 1000 /\ f[7] < n % 1000

NumberLess(x, y) ==
  CASE x.k = "nan" \/ y.k = "nan" -> FALSE
    [] x.k = "int" /\ y.k = "int" -> x.n < y.n
    [] x.k = "time" /\ y.k = "time" -> TupleLess(x.f, y.f)
    [] x.k = "int" /\ y.k = "time" -> IntLessTime(x.n, y.f)
    [] x.k = "time" /\ y.k = "int" -> TimeLessInt(x.f, y.n)

\* x < y
Less(x, y) ==
  LET px == ToPrimitive(x)
      py == ToPrimitive(y)
  IN  IF px.t = "string" /\ py.t = "string" THEN StringLess(px.v, py.v)
      ELSE NumberLess(ToNumber(px), ToNumber(py))

K_field == <<"f", "i", "e", "l", "d">>
K_order == <<"o", "r", "d", "e", "r">>
Desc == Str(<<"d", "e", "s", "c">>)
Asc == Str(<<"a", "s", "c">>)

ComparandAsGiven(val) == val

\* if (typeof val === "string" && isoDateRegex.test(val)) comp = new Date(val)
Comparand(val) ==
  IF val.t = "string" /\ IsoDateRegexTest(val.v) THEN NewDate(val.v) ELSE val

\* The (a, b) => ... passed to rows.sort, for rows that are not null.
Comparator(a, b, field, order) ==
  LET aComp == Comparand(Get(a, field))
      bComp == Comparand(Get(b, field))
  IN  IF Less(aComp, bComp) THEN (IF order = Desc THEN 1 ELSE -1)
      ELSE IF Less(bComp, aComp) THEN (IF order = Desc THEN -1 ELSE 1)
      ELSE 0

----------------------------------------------------------------------------
(* Array.prototype.sort(comparefn).  The language fixes the result only    *)
(* for a consistent comparefn (the stable order); otherwise the order is   *)
(* the host's.  Two stable algorithms stand for the hosts: straight        *)
(* insertion and bottom-up merge.                                          *)

\* x placed into the sorted run s, moving left past greater elements.
RECURSIVE InsertLast(_, _, _, _)
InsertLast(s, x, field, order) ==
  IF s = <<>> THEN <<x>>
  ELSE IF Comparator(s[Len(s)], x, field, order) > 0
  THEN Bind(SubSeq(s, 1, Len(s) - 1),
            LAMBDA front : Append(InsertLast(front, x, field, order), s[Len(s)]))
  ELSE Append(s, x)

RECURSIVE InsertionSort(_, _, _)
InsertionSort(a, field, order) ==
  IF a = <<>> THEN <<>>
  ELSE Bind(InsertionSort(SubSeq(a, 1, Len(a) - 1), field, order),
            LAMBDA s : InsertLast(s, a[Len(a)], field, order))

\* Two adjacent runs merged: the right element goes first only when it
\* compares below the left one.
RECURSIVE Merge(_, _, _, _)
Merge(l, r, field, order) ==
  IF l = <<>> THEN r
  ELSE IF r = <<>> THEN l
  ELSE IF Comparator(r[1], l[1], field, order) < 0
  THEN Bind(Tail(r), LAMBDA rest : <<r[1]>> \o Merge(l, rest, field, order))
  ELSE Bind(Tail(l), LAMBDA rest : <<l[1]>> \o Merge(rest, r, field, order))

Min(x, y) == IF x < y THEN x ELSE y

RECURSIVE MergePass(_, _, _, _)
MergePass(a, width, field, order) ==
  IF Len(a) <= width THEN a
  ELSE Bind(SubSeq(a, 1, width), LAMBDA l :
         Bind(SubSeq(a, width + 1, Min(2 * width, Len(a))), LAMBDA r :
           Bind(SubSeq(a, 2 * width + 1, Len(a)), LAMBDA rest :
             Merge(l, r, field, order) \o MergePass(rest, width, field, order))))

RECURSIVE MergeSort(_, _, _, _)
MergeSort(a, width, field, order) ==
  IF width >= Len(a) THEN a
  ELSE Bind(MergePass(a, width, field, order),
            LAMBDA pass : MergeSort(pass, 2 * width, field, order))

Engines == {"insertion", "merge"}

\* The name a value is used under as a property key.
PropertyKey(x) == IF x.t = "string" THEN x.v ELSE String(x)

\* rows.sort((a, b) => ...): the new element order of the same array, or
\* the TypeError of reading a[field] on a null row (array left as it was).
ArraySort(eng, rows, field, order) ==
  IF Len(rows) >= 2 /\ \E i \in 1..Len(rows) : IsNullish(rows[i]) THEN TypeError
  ELSE Bind(PropertyKey(field), LAMBDA key :
         [t |-> "sorted",
          v |-> IF eng = "insertion" THEN InsertionSort(rows, key, order)
                ELSE MergeSort(rows, 1, key, order)])

----------------------------------------------------------------------------
(* render() *)

\* The id of the one element of the host document.
ExistingId == "tableContainer"

\* document.getElementById(id) finds an element.
ElementExists(id) == id = ExistingId

\* container.innerHTML = "<p> No Data Available </p>"
NoDataIndicator == [tag |-> "p", text |-> " No Data Available "]

\* The <table> built by render(): thead holds the header row when there is
\* one (no thead element otherwise), tbody one sequence of cell texts per row.
Table(headers, body) ==
  [tag |-> "table",
   thead |-> IF Len(headers) > 0 THEN <<[i \in 1..Len(headers) |-> headers[i].v]>>
             ELSE <<>>,
   tbody |-> body]

\* console.error(`Container with ID "${this.containerId}" not found.`)
NotFoundMessage(id) ==
  [level |-> "error", text |-> <<"Container with ID \"", id, "\" not found.">>]

\* obj with the array under key k reordered in place.
SetProperty(obj, k, x) ==
  Obj([i \in 1..Len(obj.v) |->
        IF obj.v[i][1] = k THEN <<k, x>> ELSE obj.v[i]])

\* this.data after the array _normalizeData returned was sorted in place.
SortedInPlace(d, ref, rows) ==
  CASE ref = "data" -> Arr(rows)
    [] ref = "results" -> SetProperty(d, K_results, Arr(rows))
    [] ref = "d" -> SetProperty(d, K_d, Arr(rows))
    [] ref = "d.results" ->
         SetProperty(d, K_d, SetProperty(Get(d, K_d), K_results, Arr(rows)))
    [] OTHER -> d

\* What one render() call leaves behind.
Outcome(d, cont, msgs, st, r) ==
  [data |-> d, container |-> cont, console |-> msgs, stages |-> st, ret |-> r]

MissingContainerFallsThrough(d, cont, cid) ==
  Outcome(d, cont, <<NotFoundMessage(cid)>>, <<"normalize">>, TypeError)

\* Lines 165-168: report the missing container and return.
MissingContainer(d, cont, cid) ==
  Outcome(d, cont, <<NotFoundMessage(cid)>>, <<>>, Undefined)

BodyCellsBlankWhenAbsent(rows, headers, fD) ==
  [i \in 1..Len(rows) |->
    [j \in 1..Len(headers) |->
      IF HasOwn(rows[i], PropertyKey(headers[j]))
      THEN _formatCellValue(Get(rows[i], PropertyKey(headers[j])), fD)
      ELSE Str(<<>>)]]

\* tbody: td.innerText = this._formatCellValue(row[header]) per row and header.
BodyCells(rows, headers, fD) ==
  [i \in 1..Len(rows) |->
    [j \in 1..Len(headers) |->
      _formatCellValue(Get(rows[i], PropertyKey(headers[j])), fD)]]

CellsThrow(cells) ==
  \E i \in 1..Len(cells) : \E j \in 1..Len(cells[i]) : IsThrow(cells[i][j])

CellTexts(cells) ==
  [i \in 1..Len(cells) |-> [j \in 1..Len(cells[i]) |-> cells[i][j].v]]

\* container.innerHTML = ""; ...; container.appendChild(table)
ReplacedContent(cont, table) == <<table>>

\* Lines 210-257: headers, body and mount, after the sort. d1 is this.data
\* as the sort left it, shown the container's content at that point.
BuildAndMount(d1, shown, iH, fD, rows, ran) ==
  Bind(_generateHeaders(rows, iH), LAMBDA headers :
    IF IsThrow(headers)
    THEN Outcome(d1, <<>>, <<>>, ran \o <<"headers">>, TypeError)
    ELSE Bind(BodyCells(rows, headers.v, fD), LAMBDA cells :
           IF CellsThrow(cells)
           THEN Outcome(d1, <<>>, <<>>, ran \o <<"headers", "format">>, TypeError)
           ELSE Outcome(d1,
                        ReplacedContent(shown, Table(headers.v, CellTexts(cells))),
                        <<>>,
                        ran \o <<"headers">>
                          \o (IF Len(rows) > 0 /\ Len(headers.v) > 0
                              THEN <<"format">> ELSE <<>>),
                        Undefined)))

\* Lines 170-196: the "no data" message and the sort, on the array
\* _normalizeData returned.
SortAndMount(d, cont, iH, fD, sB, eng, norm) ==
  LET rows == norm.val
      shown == IF Len(rows.v) = 0 THEN <<NoDataIndicator>> ELSE cont
      sorting == Truthy(AndThen(sB, Get(sB, K_field)))
      ran == <<"normalize">> \o (IF sorting THEN <<"sort">> ELSE <<>>)
  IN  IF IsThrow(rows) THEN Outcome(d, cont, <<>>, <<"normalize">>, TypeError)
      ELSE Bind(IF sorting
                THEN ArraySort(eng, rows.v, Get(sB, K_field), Get(sB, K_order))
                ELSE [t |-> "sorted", v |-> rows.v],
                LAMBDA sorted :
                  IF IsThrow(sorted) THEN Outcome(d, shown, <<>>, ran, TypeError)
                  ELSE Bind(SortedInPlace(d, norm.ref, sorted.v), LAMBDA d1 :
                         BuildAndMount(d1, shown, iH, fD, sorted.v, ran)))

\* Lines 170-257: render() with the container found.
Mounted(d, cont, iH, fD, sB, eng) ==
  Bind(_normalizeData(d), LAMBDA norm : SortAndMount(d, cont, iH, fD, sB, eng, norm))

\* render()
RenderCall(d, cont, cid, iH, fD, sB, eng) ==
  IF ~ElementExists(cid) THEN MissingContainer(d, cont, cid)
  ELSE Mounted(d, cont, iH, fD, sB, eng)

----------------------------------------------------------------------------
(* Inputs *)

MaxRows == 2
MaxRenders == 2
MaxHeaderRows == 3
MaxArrayLen == 3

K_a == <<"a">>
K_b == <<"b">>
K_z == <<"z">>
K_meta == <<"_", "m", "e", "t", "a">>
K_value == <<"v", "a", "l", "u", "e">>

\* All sequences over S of length at most n.
SeqsUpTo(S, n) == UNION {[1..k -> S] : k \in 0..n}

NotCalled == [t |-> "pending"]

\* Rows of the rendered lists.  The third lacks the field "a", the second
\* the field "b".
Rows ==
  { Obj(<< <<K_a, Num(2)>>, <<K_b, Str(<<"x">>)>> >>),
    Obj(<< <<K_a, Num(1)>>, <<K_meta, Null>> >>),
    Obj(<< <<K_b, Arr(<<Num(2), Null>>)>> >>) }

\* Five rows whose values at "a" are: none, 2, none, 1, 1.
MixedRows ==
  << Obj(<< <<K_b, Num(0)>> >>),
     Obj(<< <<K_a, Num(2)>>, <<K_b, Num(1)>> >>),
     Obj(<< <<K_b, Num(2)>> >>),
     Obj(<< <<K_a, Num(1)>>, <<K_b, Num(3)>> >>),
     Obj(<< <<K_a, Num(1)>>, <<K_b, Num(4)>> >>) >>

RowArrays == SeqsUpTo(Rows, MaxRows)

\* The four envelope shapes around one row array.
Bare(rows) == Arr(rows)
InResults(rows) == Obj(<< <<K_results, Arr(rows)>> >>)
InD(rows) == Obj(<< <<K_d, Arr(rows)>> >>)
InDResults(rows) == Obj(<< <<K_d, Obj(<< <<K_results, Arr(rows)>> >>)>> >>)

Envelopes(rows) == {Bare(rows), InResults(rows), InD(rows), InDResults(rows)}

\* Lists with a null among the rows: [null] and [{a: 1}, null].
NullRowInputs ==
  {Bare(<<Null>>), Bare(<<Obj(<< <<K_a, Num(1)>> >>), Null>>)}

\* [{b: "x", a: 2}, {a: 1, z: 0}]: sorting by "a" moves the row whose
\* first key is "a" to the front.
KeyOrderRows ==
  << Obj(<< <<K_b, Str(<<"x">>)>>, <<K_a, Num(2)>> >>),
     Obj(<< <<K_a, Num(1)>>, <<K_z, Num(0)>> >>) >>

RenderInputs ==
  UNION {Envelopes(rows) : rows \in RowArrays}
    \cup {Bare(MixedRows), Bare(KeyOrderRows), Null, Obj(<<>>)} \cup NullRowInputs

IncludeHeaderLists ==
  { Null,
    Arr(<<Str(K_b), Str(K_a), Str(K_z)>>),
    Arr(<<Str(K_a), Str(K_a)>>) }

SortSpecs ==
  { Null,
    Obj(<< <<K_field, Str(K_a)>>, <<K_order, Asc>> >>),
    Obj(<< <<K_field, Str(K_a)>>, <<K_order, Desc>> >>) }

DateFormats == { Null, Arr(<<Bool(TRUE), Bool(FALSE)>>) }

\* Content the host page may have put in the container beforehand.
PriorContent == << [tag |-> "div", text |-> "loading"] >>

----------------------------------------------------------------------------
(* The instance: constructed, then rendered any number of times. *)

Init ==
  /\ data \in RenderInputs
  /\ input = data
  /\ includeHeaders \in IncludeHeaderLists
  /\ formatDates \in DateFormats
  /\ sortBy \in SortSpecs
  /\ containerId \in {ExistingId, "noSuchElement"}
  /\ container \in {<<>>, PriorContent}
  /\ console = <<>>
  /\ stages = <<>>
  /\ renders = 0
  /\ engine \in Engines
  /\ arg = Undefined
  /\ ret = NotCalled

Render ==
  /\ renders < MaxRenders
  /\ \E out \in {RenderCall(data, container, containerId, includeHeaders,
                             formatDates, sortBy, engine)} :
       /\ data' = out.data
       /\ container' = out.container
       /\ console' = console \o out.console
       /\ stages' = out.stages
       /\ ret' = out.ret
  /\ renders' = renders + 1
  /\ UNCHANGED <<input, includeHeaders, formatDates, sortBy, containerId,
                 engine, arg>>

Next == Render

Spec == Init /\ [][Next]_vars

----------------------------------------------------------------------------
(* _normalizeData called on its own. *)

DValues ==
  {Null, Num(5), Obj(<<>>)}
    \cup {Arr(rows) : rows \in RowArrays}
    \cup {Obj(<< <<K_results, x>> >>) :
            x \in {Null, Str(<<"x">>)} \cup {Arr(rows) : rows \in RowArrays}}

ResultsValues ==
  {Null, Num(0), Str(<<"x">>), Obj(<<>>)} \cup {Arr(rows) : rows \in RowArrays}

NormalizeInputs ==
  {Obj(dPart \o rPart) :
     dPart \in {<<>>} \cup {<< <<K_d, x>> >> : x \in DValues},
     rPart \in {<<>>} \cup {<< <<K_results, x>> >> : x \in ResultsValues}}
    \cup {Arr(rows) : rows \in RowArrays}
    \cup {Obj(<< <<K_value, Arr(rows)>> >>) : rows \in RowArrays}
    \cup {Undefined, Null, Num(0), Num(7), Str(<<>>), Str(<<"a", "b", "c">>),
          Bool(FALSE), Bool(TRUE)}

\* The fields a direct method call does not read.
Idle ==
  /\ containerId = ExistingId
  /\ container = <<>>
  /\ console = <<>>
  /\ stages = <<>>
  /\ renders = 0
  /\ engine = "insertion"
  /\ ret = NotCalled

InitNormalize ==
  /\ data \in NormalizeInputs
  /\ input = data
  /\ includeHeaders = Null
  /\ formatDates = Null
  /\ sortBy = Null
  /\ arg = Undefined
  /\ Idle

CallNormalizeData ==
  /\ ret = NotCalled
  /\ ret' = _normalizeData(data).val
  /\ UNCHANGED <<data, input, includeHeaders, formatDates, sortBy, containerId,
                 container, console, stages, renders, engine, arg>>

SpecNormalize == InitNormalize /\ [][CallNormalizeData]_vars

----------------------------------------------------------------------------
(* _generateHeaders called on its own. *)

RowWithKeys(ks) == Obj([i \in 1..Len(ks) |-> <<ks[i], Num(i)>>])

HeaderRows ==
  { RowWithKeys(ks) :
      ks \in { <<>>, <<K_a>>, <<K_a, K_b>>, <<K_b, K_a>>, <<K_a, K_b, K_meta>>,
               <<K_meta, K_a>>, <<K_z, K_b>> } }

HeaderLists ==
  { Null, Num(0), Str(K_a), Arr(<<>>),
    Arr(<<Str(K_b), Str(K_a), Str(K_z)>>),
    Arr(<<Str(K_a), Str(K_a)>>),
    Arr(<<Str(K_meta), Str(K_a)>>) }

InitHeaders ==
  /\ arg \in {Arr(rows) : rows \in SeqsUpTo(HeaderRows, MaxHeaderRows)}
  /\ includeHeaders \in HeaderLists
  /\ data = Null
  /\ input = Null
  /\ formatDates = Null
  /\ sortBy = Null
  /\ Idle

CallGenerateHeaders ==
  /\ ret = NotCalled
  /\ ret' = _generateHeaders(arg.v, includeHeaders)
  /\ UNCHANGED <<data, input, includeHeaders, formatDates, sortBy, containerId,
                 container, console, stages, renders, engine, arg>>

SpecHeaders == InitHeaders /\ [][CallGenerateHeaders]_vars

----------------------------------------------------------------------------
(* _formatCellValue called on its own. *)

IsoExample ==
  <<"2", "0", "2", "4", "-", "0", "3", "-", "0", "5", "T",
    "1", "0", ":", "0", "0", ":", "0", "0", "Z">>

\* 2024-03-05T10:00:00 with the given ending.
IsoEnding(tail) == SubSeq(IsoExample, 1, 19) \o tail

\* 2023-12-31T23:59:07.250Z
IsoEvening ==
  <<"2", "0", "2", "3", "-", "1", "2", "-", "3", "1", "T",
    "2", "3", ":", "5", "9", ":", "0", "7", ".", "2", "5", "0", "Z">>

\* Strings that resemble an ISO date-time: no Z, a numeric offset, a
\* fraction without digits, a date alone, text after the Z.
NearIsoStrings ==
  { IsoEnding(<<>>), IsoEnding(<<"+", "0", "1", ":", "0", "0">>),
    IsoEnding(<<".", "Z">>), SubSeq(IsoExample, 1, 10), IsoEnding(<<"Z", " ">>) }

Scalars ==
  { Null, Num(0), Num(1), Num(-12), Num(305), Str(<<>>), Str(<<"x">>),
    Str(IsoExample), Str(IsoEvening), Bool(TRUE), Bool(FALSE) }
    \cup {Str(x) : x \in NearIsoStrings}

FlatArrays == {Arr(xs) : xs \in SeqsUpTo({Null, Num(2), Num(3)}, MaxArrayLen)}

CellValues ==
  Scalars
    \cup FlatArrays
    \cup { Obj(<< <<K_a, x>>, <<K_b, y>> >>) :
             x \in {Null, Num(1), Str(<<"x">>)},
             y \in FlatArrays \cup {Obj(<< <<K_z, Null>> >>), Bool(FALSE)} }
    \cup { Obj(<<>>),
           Arr(<<Obj(<< <<K_a, Num(1)>> >>), Arr(<<Num(2), Arr(<<>>)>>)>>) }

FormatDateSettings ==
  {Null} \cup {Arr(<<Bool(x), Bool(y)>>) : x \in BOOLEAN, y \in BOOLEAN}

InitFormat ==
  /\ arg \in CellValues
  /\ formatDates \in FormatDateSettings
  /\ data = Null
  /\ input = Null
  /\ includeHeaders = Null
  /\ sortBy = Null
  /\ Idle

CallFormatCellValue ==
  /\ ret = NotCalled
  /\ ret' = _formatCellValue(arg, formatDates)
  /\ UNCHANGED <<data, input, includeHeaders, formatDates, sortBy, containerId,
                 container, console, stages, renders, engine, arg>>

SpecFormat == InitFormat /\ [][CallFormatCellValue]_vars

----------------------------------------------------------------------------
(* Properties *)

\* The value of property k of o, undefined where there is none.
Field(o, k) == IF HasOwn(o, k) THEN Lookup(o, k) ELSE Undefined

\* The places _normalizeData looks at, in the documented order.
Probes(raw) ==
  <<Field(Field(raw, K_d), K_results), Field(raw, K_results), Field(raw, K_d), raw>>

AnyProbeIsArray(raw) == \E i \in 1..4 : IsArray(Probes(raw)[i])

FirstArrayProbe(raw) ==
  Probes(raw)[CHOOSE i \in 1..4 :
                /\ IsArray(Probes(raw)[i])
                /\ \A j \in 1..(i - 1) : ~IsArray(Probes(raw)[j])]

\* C1: _normalizeData returns the array of the first matching probe in the
\* order data.d.results, data.results, data.d, data; so the four envelope
\* shapes around one row array all give that row array, and data with arrays
\* at both d.results and results gives d.results.
C1_FirstProbeWins ==
  ret # NotCalled =>
    /\ AnyProbeIsArray(data) => ret = FirstArrayProbe(data)
    /\ \A rows \in RowArrays : data \in Envelopes(rows) => ret = Arr(rows)
    /\ (IsArray(Field(Field(data, K_d), K_results)) /\ IsArray(Field(data, K_results)))
         => ret = Field(Field(data, K_d), K_results)

C1_Witness ==
  /\ ret # NotCalled
  /\ IsArray(Field(Field(data, K_d), K_results))
  /\ IsArray(Field(data, K_results))
  /\ Field(Field(data, K_d), K_results) # Field(data, K_results)
  /\ ret = Field(Field(data, K_d), K_results)
  /\ Len(ret.v) = 2

\* C2: _normalizeData returns an empty array and raises nothing when data is
\* null, undefined, {} or any value in which none of d.results, results, d
\* is an array and which is no array itself.
C2_UnrecognizedGivesEmpty ==
  (ret # NotCalled /\ ~AnyProbeIsArray(data)) => ret = Arr(<<>>)

C2_Witness ==
  /\ data = Obj(<<>>)
  /\ ret = Arr(<<>>)

IsEmptyTableShell(node) ==
  node.tag = "table" /\ node.thead = <<>> /\ node.tbody = <<>>

C4_RawInputNotMutated == data = input

\* C5: with no element of id containerId, a render() call raises nothing,
\* leaves the document and the data alone, enters no stage of the pipeline
\* and writes exactly one diagnostic message.
C5_MissingContainerOnlyReports ==
  [][~ElementExists(containerId) =>
       /\ ret' = Undefined
       /\ container' = container
       /\ data' = data
       /\ stages' = <<>>
       /\ console' = Append(console, NotFoundMessage(containerId))]_vars

C5_Witness ==
  /\ ~ElementExists(containerId)
  /\ renders = 2
  /\ container = PriorContent
  /\ Len(console) = 2
  /\ ret = Undefined

\* What a single render() of the constructed instance puts in a fresh,
\* empty container.
FreshContent ==
  RenderCall(input, <<>>, containerId, includeHeaders, formatDates, sortBy,
             engine).container

\* C6: after any number of render() calls on one instance, whatever the
\* container held before, its content is what a single render() call puts
\* in a fresh container.
C6_RerenderSameContent ==
  (renders >= 1 /\ ElementExists(containerId)) => container = FreshContent

\* Every key of every row, row after row, each row in key iteration order.
RECURSIVE AllKeysInOrder(_)
AllKeysInOrder(rows) ==
  IF rows = <<>> THEN <<>> ELSE Keys(rows[1]) \o AllKeysInOrder(Tail(rows))

FirstSeenAt(k, flat) == CHOOSE i \in 1..Len(flat) : flat[i] = k /\ \A j \in 1..(i - 1) : flat[j] # k

NoDuplicates(seq) == \A i, j \in 1..Len(seq) : seq[i] = seq[j] => i = j

\* C7: with no includeHeaders list (null, or no array), _generateHeaders
\* returns the keys of all rows in first-seen order, every key starting
\* with "_" left out; rows of keys a, b, _meta give [a, b].
C7_DefaultHeaders ==
  (ret # NotCalled /\ ~IsArray(includeHeaders)) =>
    LET flat == AllKeysInOrder(arg.v)
    IN  /\ IsArray(ret)
        /\ \A i \in 1..Len(ret.v) : ret.v[i].t = "string"
        /\ {ret.v[i].v : i \in 1..Len(ret.v)}
             = {flat[i] : i \in {j \in 1..Len(flat) : flat[j][1] # "_"}}
        /\ NoDuplicates(ret.v)
        /\ \A i, j \in 1..Len(ret.v) :
             i < j => FirstSeenAt(ret.v[i].v, flat) < FirstSeenAt(ret.v[j].v, flat)
        /\ arg = Arr(<<RowWithKeys(<<K_a, K_b, K_meta>>)>>)
             => ret = Arr(<<Str(K_a), Str(K_b)>>)

C7_Witness ==
  /\ includeHeaders = Null
  /\ arg = Arr(<<RowWithKeys(<<K_meta, K_a>>), RowWithKeys(<<K_z, K_b>>)>>)
  /\ ret = Arr(<<Str(K_a), Str(K_z), Str(K_b)>>)

OccursInData(h, rows) == \E i \in 1..Len(rows) : HasOwn(rows[i], h.v)

\* C8: with an includeHeaders list, _generateHeaders returns exactly the
\* entries of the list that are a key of some row, in the list's order;
\* [b, a, z] over rows of keys a, b, _meta gives [b, a].
C8_IncludeListFiltered ==
  (ret # NotCalled /\ IsArray(includeHeaders)) =>
    /\ ret = Arr(SelectSeq(includeHeaders.v, LAMBDA h : OccursInData(h, arg.v)))
    /\ (/\ includeHeaders = Arr(<<Str(K_b), Str(K_a), Str(K_z)>>)
        /\ arg = Arr(<<RowWithKeys(<<K_a, K_b, K_meta>>)>>))
         => ret = Arr(<<Str(K_b), Str(K_a)>>)

C8_Witness ==
  /\ includeHeaders = Arr(<<Str(K_b), Str(K_a), Str(K_z)>>)
  /\ arg = Arr(<<RowWithKeys(<<K_a, K_b, K_meta>>)>>)
  /\ ret = Arr(<<Str(K_b), Str(K_a)>>)

\* C9: whatever the rows and includeHeaders are, no field name is twice in
\* the headers _generateHeaders returns.
C9_HeadersUnique == ret # NotCalled => NoDuplicates(ret.v)

\* The display string of a CellValue by the documented rules, date
\* formatting off.
RECURSIVE ReferenceText(_)
ReferenceText(x) ==
  CASE x.t = "null" -> <<>>
    [] x.t = "array" ->
         Join([i \in 1..Len(x.v) |-> ReferenceText(x.v[i])], <<",", " ">>)
    [] x.t = "object" ->
         Join([i \in 1..Len(x.v) |->
                x.v[i][1] \o <<":", " ">> \o ReferenceText(x.v[i][2])],
              <<",", " ">>)
    [] x.t = "string" -> x.v
    [] x.t = "boolean" -> IF x.v THEN <<"t", "r", "u", "e">>
                          ELSE <<"f", "a", "l", "s", "e">>
    [] x.t = "number" ->
         IF x.v = 0 THEN <<"0">>
         ELSE LET m == IF x.v < 0 THEN 0 - x.v ELSE x.v
                  n == CHOOSE k \in 1..9 : 10 ^ (k - 1) <= m /\ m < 10 ^ k
              IN  (IF x.v < 0 THEN <<"-">> ELSE <<>>)
                    \o [i \in 1..n |-> Digits[((m \div (10 ^ (n - i))) % 10) + 1]]

ExampleCell ==
  Obj(<< <<K_a, Num(1)>>, <<K_b, Arr(<<Num(2), Null, Num(3)>>)>> >>)

ExampleText ==
  <<"a", ":", " ", "1", ",", " ", "b", ":", " ", "2", ",", " ", ",", " ", "3">>

\* C10: with date formatting off, _formatCellValue gives every finite
\* CellValue the text of the recursive reference definition: "" for null,
\* the elements joined with ", " for an array, the "key: value" entries
\* joined with ", " for an object, the standard text for a string, number
\* or boolean; {a: 1, b: [2, null, 3]} gives "a: 1, b: 2, , 3".
C10_FormatMatchesReference ==
  (ret # NotCalled /\ formatDates = Null) =>
    /\ ret = Str(ReferenceText(arg))
    /\ arg = ExampleCell => ret = Str(ExampleText)

C10_Witness ==
  /\ formatDates = Null
  /\ arg = ExampleCell
  /\ ret = Str(ExampleText)

\* The text with every digit replaced by "d".
Shape(x) == [i \in 1..Len(x) |-> IF IsDigit(x[i]) THEN "d" ELSE x[i]]

IsoShape ==
  <<"d", "d", "d", "d", "-", "d", "d", "-", "d", "d", "T",
    "d", "d", ":", "d", "d", ":", "d", "d">>

\* YYYY-MM-DDTHH:MM:SS, an optional "." with one or more digits, then Z.
StrictIso(x) ==
  \/ Shape(x) = IsoShape \o <<"Z">>
  \/ \E n \in 1..(Len(x) - 21) :
       Shape(x) = IsoShape \o <<".">> \o [i \in 1..n |-> "d"] \o <<"Z">>

MarchFifth == <<"3", "/", "5", "/", "2", "0", "2", "4">>

TenOClock == <<"1", "0", ":", "0", "0", ":", "0", "0", " ", "A", "M">>

\* C11: date formatting depends only on formatDates and the strict pattern.
\* With formatDates null every string comes back unchanged; with formatDates
\* [showDate, showTime] a string matching YYYY-MM-DDTHH:MM:SS(.fff)Z gives
\* the date and time for [true, true], the date alone for [true, false],
\* the time alone for [false, true] and "" for [false, false]; a string
\* that only resembles the pattern comes back unchanged.
C11_DateFormattingSelected ==
  (ret # NotCalled /\ arg.t = "string") =>
    IF formatDates = Null \/ ~StrictIso(arg.v) THEN ret = arg
    ELSE /\ formatDates = Arr(<<Bool(TRUE), Bool(TRUE)>>)
              => ret = Str(toLocaleString(NewDate(arg.v)))
         /\ formatDates = Arr(<<Bool(TRUE), Bool(FALSE)>>)
              => ret = Str(toLocaleDateString(NewDate(arg.v)))
         /\ formatDates = Arr(<<Bool(FALSE), Bool(TRUE)>>)
              => ret = Str(toLocaleTimeString(NewDate(arg.v)))
         /\ formatDates = Arr(<<Bool(FALSE), Bool(FALSE)>>) => ret = Str(<<>>)
         /\ arg = Str(IsoExample) =>
              /\ formatDates = Arr(<<Bool(TRUE), Bool(TRUE)>>)
                   => ret = Str(MarchFifth \o <<",", " ">> \o TenOClock)
              /\ formatDates = Arr(<<Bool(TRUE), Bool(FALSE)>>)
                   => ret = Str(MarchFifth)
              /\ formatDates = Arr(<<Bool(FALSE), Bool(TRUE)>>)
                   => ret = Str(TenOClock)

C11_Witness ==
  /\ formatDates = Arr(<<Bool(TRUE), Bool(FALSE)>>)
  /\ arg = Str(IsoExample)
  /\ ret = Str(MarchFifth)

-----------------------------------------------------------------------------
(* Sorted lists: render() over rows {id, a} sorted by the field "a". *)

MaxSortRows == 3

K_id == <<"i", "d">>

\* The row numbered n: {id: n, a: value}, or {id: n} where value is Undefined.
SortRow(n, value) ==
  IF value = Undefined THEN Obj(<< <<K_id, Num(n)>> >>)
  ELSE Obj(<< <<K_id, Num(n)>>, <<K_a, value>> >>)

\* 2024-02-30T10:00:00Z: the pattern of a date-time, the date of none.
IsoNoSuchDay ==
  <<"2", "0", "2", "4", "-", "0", "2", "-", "3", "0", "T",
    "1", "0", ":", "0", "0", ":", "0", "0", "Z">>

SortNumbers == {Num(1), Num(2), Num(10)}

SortStrings == {Str(<<"a">>), Str(<<"1", "0">>), Str(<<"9">>)}

SortBooleans == {Bool(FALSE), Bool(TRUE)}

\* The first and the last name the same instant.
SortDates ==
  {Str(IsoExample), Str(IsoEvening), Str(IsoEnding(<<".", "0", "0", "0", "Z">>))}

\* Values of several kinds, Undefined standing for a row without the field.
SortMixed == {Undefined, Num(1), Num(2), Str(<<"a">>), Str(IsoNoSuchDay)}

SortValueLists ==
  UNION {SeqsUpTo(kind, MaxSortRows) :
           kind \in {SortNumbers, SortStrings, SortBooleans, SortDates, SortMixed}}

SortInputs ==
  {Arr([n \in 1..Len(values) |-> SortRow(n, values[n])]) : values \in SortValueLists}

SortOrders == {Asc, Desc, Str(<<"u", "p">>)}

SortByA ==
  {Obj(<< <<K_field, Str(K_a)>>, <<K_order, order>> >>) : order \in SortOrders}
    \cup {Obj(<< <<K_field, Str(K_a)>> >>)}

InitSort ==
  /\ data \in SortInputs
  /\ input = data
  /\ includeHeaders = Null
  /\ formatDates = Null
  /\ sortBy \in SortByA
  /\ containerId = ExistingId
  /\ container = <<>>
  /\ console = <<>>
  /\ stages = <<>>
  /\ renders = 0
  /\ engine \in Engines
  /\ arg = Undefined
  /\ ret = NotCalled

SpecSort == InitSort /\ [][Render]_vars

\* The ids in the first column of the mounted table, top to bottom.
RenderedIds ==
  [i \in 1..Len(container[1].tbody) |-> DigitsToNat(container[1].tbody[i][1])]

\* The value at the sort field of the input row numbered n.
SortValue(n) == Get(input.v[n], K_a)

SortedTableShown ==
  /\ renders > 0
  /\ Len(input.v) > 0
  /\ Len(container) = 1
  /\ container[1].tag = "table"

Descending == Get(sortBy, K_order) = Desc

KindOf(value) ==
  CASE value.t = "number" -> "number"
    [] value.t = "boolean" -> "boolean"
    [] value.t = "string" /\ ~StrictIso(value.v) -> "text"
    [] value.t = "string" /\ StrictIso(value.v) /\ NewDate(value.v).valid -> "date"
    [] OTHER -> "none"

OneKind ==
  \E kind \in {"number", "boolean", "text", "date"} :
    \A n \in 1..Len(input.v) : KindOf(SortValue(n)) = kind

\* The day named by the text, on a scale that grows with the calendar.
DayNumber(x) == (NewDate(x).f[1] * 12 + NewDate(x).f[2]) * 31 + NewDate(x).f[3]

\* The milliseconds since midnight named by the text.
TimeOfDay(x) ==
  LET f == NewDate(x).f
  IN  ((f[4] * 60 + f[5]) * 60 + f[6]) * 1000 + f[7]

Earlier(x, y) ==
  \/ DayNumber(x) < DayNumber(y)
  \/ DayNumber(x) = DayNumber(y) /\ TimeOfDay(x) < TimeOfDay(y)

Lexicographic(x, y) ==
  \E k \in 1..Len(y) :
    /\ \A i \in 1..(k - 1) : i <= Len(x) /\ x[i] = y[i]
    /\ k > Len(x) \/ (k <= Len(x) /\ CodeUnit(x[k]) < CodeUnit(y[k]))

\* u comes strictly before v in the order of their common kind.
Before(u, v) ==
  CASE KindOf(u) = "number" -> u.v < v.v
    [] KindOf(u) = "boolean" -> ~u.v /\ v.v
    [] KindOf(u) = "date" -> Earlier(u.v, v.v)
    [] KindOf(u) = "text" -> Lexicographic(u.v, v.v)

AscendingIds ==
  LET shown == RenderCall(input, <<>>, containerId, includeHeaders, formatDates,
                          Obj(<< <<K_field, Str(K_a)>>, <<K_order, Asc>> >>),
                          engine).container
  IN  [i \in 1..Len(shown[1].tbody) |-> DigitsToNat(shown[1].tbody[i][1])]

\* The place of the row numbered n in a column of ids.
Position(ids, n) == CHOOSE i \in 1..Len(ids) : ids[i] = n

\* Two values are one key when they are equal or name the same instant.
SameKey(u, v) ==
  \/ u = v
  \/ /\ KindOf(u) = "date" /\ KindOf(v) = "date"
     /\ ~Earlier(u.v, v.v) /\ ~Earlier(v.v, u.v)

\* C13: order "desc" gives the exact reverse of the "asc" result for all
\* pairs of rows with distinct keys: any two rows whose sort-field values
\* differ stand in the opposite relative position under "desc" and "asc".
C13_DescReversesAsc ==
  (SortedTableShown /\ Descending /\ renders = 1) =>
    \A m, n \in 1..Len(input.v) :
      ~SameKey(SortValue(m), SortValue(n)) =>
        (Position(RenderedIds, m) < Position(RenderedIds, n)
           <=> Position(AscendingIds, n) < Position(AscendingIds, m))

\* The input row numbered n has no property at the sort field.
LacksField(n) == ~HasOwn(input.v[n], K_a)

\* C14: rows that lack the sort field stand on one side: before every row
\* that has it when the order is ascending, after every such row when the
\* order is descending.
C14_MissingFieldOneSide ==
  SortedTableShown =>
    \A m, n \in 1..Len(input.v) :
      (LacksField(m) /\ ~LacksField(n)) =>
        IF Descending
        THEN Position(RenderedIds, n) < Position(RenderedIds, m)
        ELSE Position(RenderedIds, m) < Position(RenderedIds, n)

\* C15: no stage raises: whatever the data and the configuration, a
\* render() call against an existing container runs normalize, sort, header
\* derivation and cell formatting to completion and returns to its caller
\* without an exception.
C15_NoStageRaises ==
  (renders > 0 /\ ElementExists(containerId)) => ret = Undefined

\* The distinct entries of a sequence, each at its first occurrence.
RECURSIVE FirstSeen(_)
FirstSeen(flat) ==
  IF flat = <<>> THEN <<>>
  ELSE Bind(FirstSeen(SubSeq(flat, 1, Len(flat) - 1)), LAMBDA front :
         IF \E i \in 1..Len(front) : front[i] = flat[Len(flat)] THEN front
         ELSE Append(front, flat[Len(flat)]))

\* The header texts of the mounted table, left to right.
ShownColumns ==
  IF container[1].thead = <<>> THEN <<>> ELSE container[1].thead[1]

RenderCompleted ==
  /\ renders > 0
  /\ ElementExists(containerId)
  /\ ret = Undefined

\* C16: the headers are derived from the normalized rows before the sort:
\* with no includeHeaders list the rendered column order is the first-seen
\* key order of the rows in input order, whatever sortBy is.
C16_HeadersBeforeSort ==
  (RenderCompleted /\ includeHeaders = Null) =>
    /\ \A i, j \in 1..Len(stages) :
         (stages[i] = "headers" /\ stages[j] = "sort") => i < j
    /\ ShownColumns
         = SelectSeq(FirstSeen(AllKeysInOrder(_normalizeData(input).val.v)),
                     LAMBDA k : k[1] # "_")

UndefinedText == <<"u", "n", "d", "e", "f", "i", "n", "e", "d">>

\* The rows as render() showed them: the normalized rows of this.data.
ShownRows == _normalizeData(data).val.v

\* C17: the body has one row per normalized row and each body row one cell
\* per header, in header order; where a row lacks a displayed column's
\* field the value formatted is undefined and the cell reads "undefined",
\* not the empty text given to null.
C17_OneCellPerHeader ==
  RenderCompleted =>
    /\ Len(container) = 1
    /\ Len(container[1].tbody) = Len(_normalizeData(input).val.v)
    /\ \A i \in 1..Len(container[1].tbody) :
         /\ Len(container[1].tbody[i]) = Len(ShownColumns)
         /\ \A j \in 1..Len(ShownColumns) :
              container[1].tbody[i][j]
                = IF HasOwn(ShownRows[i], ShownColumns[j])
                  THEN _formatCellValue(Lookup(ShownRows[i], ShownColumns[j]),
                                        formatDates).v
                  ELSE UndefinedText

\* [{b: "x", a: 2}, {a: 1, z: 0}] unsorted: columns b, a, z.
C17_Witness ==
  /\ RenderCompleted
  /\ input = Bare(KeyOrderRows)
  /\ sortBy = Null
  /\ includeHeaders = Null
  /\ container[1].tbody = << << <<"x">>, <<"2">>, UndefinedText >>,
                             << UndefinedText, <<"1">>, <<"0">> >> >>

====
